---- MODULE Spec2Model ----
(***************************************************************************)
(* Model of porter's agent session orchestrator                            *)
(* (crates/porter-core/src/agents/mod.rs and the agent-session queries of  *)
(* crates/porter-core/src/db/queries.rs) and of the delivery of its events *)
(* (crates/porter-server/src/lib.rs, crates/porter-server/src/ws/mod.rs).  *)
(*                                                                         *)
(* Spec and FairSpec are the orchestrator, ApiSpec is the orchestrator     *)
(* with the values returned to its callers, BusSpec the two broadcast      *)
(* buses and their subscribers.  Three specifications look at one run from *)
(* close by: StreamSpec is process_stream with every field of its lines,   *)
(* CmdSpec the argument list of the child, TimedSpec the two timers of     *)
(* run_with_timeout with a finer clock.                                    *)
(*                                                                         *)
(* Atomicity follows the code's await points: everything a handler or a    *)
(* task does between two awaits is one step.  Steps separated only by a    *)
(* database await that no modelled operation can observe are merged.       *)
(* Database calls are assumed to succeed, except in DbSpec, which looks at *)
(* one session's rows while delete_session runs against the session's     *)
(* task.                                                                   *)
(***************************************************************************)
EXTENDS Integers, Sequences, FiniteSets, TLC

\* ---------------------------------------------------------------- bounds
MaxCalls == 2           \* start_session calls issued by clients
MaxRuns == 2            \* runner tasks spawned (by start_session or send_message)
MaxLines == 1           \* lines of valid JSON a child writes in one run
Tick == 150             \* seconds by which the clock advances in one step
MaxEvents == 3          \* events published on each broadcast bus
MaxStream == 3          \* lines read by the process_stream call seen from close by
MaxBlocks == 2          \* content blocks of the assistant events of one stream
Slice == 10             \* seconds between two looks at the timers seen from close by
MaxTurns == 2           \* runs (the first and the resumed ones) of the session seen from close by
MaxDeletes == 2         \* delete_session calls on the session seen from close by

\* ------------------------------------------------------ program constants
STARTUP_TIMEOUT == 30
SESSION_TIMEOUT == 300

\* AgentManager.max_concurrent, the configured ceiling
\* (agents.max_concurrent_sessions); the model runs with a ceiling of 1.
max_concurrent == 1

\* broadcast::channel(256): the number of messages a bus retains; the model
\* runs with buses that retain 2.
BusCapacity == 2

SessionIds == 1..MaxCalls
RunIds == 1..MaxRuns
CallIds == 1..MaxCalls

\* opts.working_directory: absent, an existing directory, a missing one.
DirPrefs == {"none", "exists", "missing"}

\* Lines a child may write on stdout:
\*   garbage : not valid JSON
\*   other   : valid JSON of an unrecognized type
\*   init    : {"type":"system","subtype":"init","session_id":...}
\*   text    : {"type":"assistant"} with one text block
\*   result  : {"type":"result","result":"..."} without is_error
\*   error   : {"type":"result","is_error":true,"errors":[...]}
Lines == {"garbage", "other", "init", "text", "result", "error"}

VARIABLES
    sessions,        \* agent_sessions table: id -> row
    runs,            \* spawned runner tasks: run id -> task state
    calls,           \* start_session calls in flight: call id -> position
    cancel_senders,  \* AgentManager.cancel_senders: session id -> run holding the receiver
    mcp_servers,     \* AgentManager.mcp_servers is non-empty
    reply,           \* what the last send_message / cancel_session call returned
    event_tx,        \* AgentManager.event_tx: number of AgentEvents sent so far
    ws_tx,           \* AppState.ws_tx: the WsEvents sent so far, by origin
    agent_rx,        \* the forwarding task of run_server and its receiver
    rx,              \* one WebSocket connection (handle_socket) and its receiver
    stream,          \* one process_stream call: the lines read and its locals
    cmd,             \* one child invocation: the session it is for and its arguments
    timed,           \* one run_with_timeout call: its timers and its outcome
    store            \* one session's rows, its task and the delete_session calls on it

\* The orchestrator's own state.
state == <<sessions, runs, calls, cancel_senders, mcp_servers>>

\* The broadcast buses and their subscribers.
bus == <<event_tx, ws_tx, agent_rx, rx>>

\* What the orchestrator's steps leave alone: the record of the replies and
\* the delivery of the events.
aside == <<reply, bus, stream, cmd, timed, store>>

\* One run seen from close by: its decoding, its command line, its timers;
\* and one session's rows seen from close by.
apart == <<stream, cmd, timed, store>>

vars == <<sessions, runs, calls, cancel_senders, mcp_servers, reply,
          event_tx, ws_tx, agent_rx, rx, stream, cmd, timed, store>>

\* ------------------------------------------------------------ persistence
NoSession ==
    [status |-> "absent", claude_session_id |-> "none", working_directory |-> "none",
     completed_at |-> FALSE]

\* Database::create_agent_session: a new row, status Running.
NewSessionRow(dir) ==
    [status |-> "running", claude_session_id |-> "none", working_directory |-> dir,
     completed_at |-> FALSE]

\* Database::update_agent_session_status:
\* SET status = ?, completed_at = COALESCE(?, completed_at).
UpdateStatus(row, status) ==
    IF row.status = "absent" THEN row
    ELSE [row EXCEPT !.status = status,
                     !.completed_at = IF status \in {"completed", "failed"}
                                      THEN TRUE ELSE @]

\* Variant: the write of the continuation id is lost.
SetClaudeSidDropped(row, csid) == row

\* Database::set_claude_session_id
SetClaudeSid(row, csid) ==
    IF row.status = "absent" THEN row ELSE [row EXCEPT !.claude_session_id = csid]

\* Database::list_agent_sessions(Some("running"))
RunningSessions == {s \in SessionIds : sessions[s].status = "running"}

ExistingSessions == {s \in SessionIds : sessions[s].status # "absent"}

\* ------------------------------------------------------------- task state
NoRun ==
    [sid |-> 0, kind |-> "none", pc |-> "unborn",
     first_event |-> TRUE, accumulated_text |-> <<>>, claude_session_id |-> "none",
     nlines |-> 0, recognized |-> FALSE, read_elapsed |-> 0, session_elapsed |-> 0,
     cancel_rx |-> "gone", child |-> "none",
     temp_dir |-> "none", mcp_config_file |-> "none",
     result |-> "none", reason |-> "none",
     msgs |-> <<>>, outputs |-> 0,
     cancel_hit |-> FALSE, resolved |-> <<>>, status_writes |-> 0,
     final_status |-> "none", published |-> FALSE]

\* The task spawned by start_session (kind "new") or send_message ("resume").
\* run_claude_session begins by storing the user message; for a resume the
\* user message was stored by send_message before the task was spawned.
SpawnedRun(sid, kind) ==
    [NoRun EXCEPT !.sid = sid, !.kind = kind,
                  !.pc = "launch",
                  !.cancel_rx = "pending",
                  !.msgs = IF kind = "new" THEN <<>> ELSE <<"user">>]

UnbornRuns == {r \in RunIds : runs[r].pc = "unborn"}
NextRun == CHOOSE r \in UnbornRuns : \A q \in UnbornRuns : r <= q

\* The bound on spawned tasks leaves room for one more admission or resume.
AdmittedCalls == {c \in CallIds : calls[c].pc = "checked"}
RoomForRun == Cardinality(AdmittedCalls) < Cardinality(UnbornRuns)

\* ------------------------------------------------- one run, from close by
\* Option<T>: None, or Some(v).  A string is the sequence of its pieces.
None == <<>>
Some(v) == <<v>>

\* parts.join(sep)
RECURSIVE Join(_, _)
Join(parts, sep) ==
    IF parts = <<>> THEN <<>>
    ELSE IF Len(parts) = 1 THEN parts[1]
    ELSE parts[1] \o sep \o Join(Tail(parts), sep)

\* The content blocks of an assistant event: the block's type, and under
\* `body` the string the code reads from it (text, thinking or name), None
\* when the block has no such string.
Blocks ==
    {[type |-> "text", body |-> Some(t)] : t \in {<<>>, <<"a">>, <<"b">>}}
    \cup {[type |-> "thinking", body |-> Some(<<"h">>)],
          [type |-> "tool_use", body |-> Some(<<"n">>)],
          [type |-> "text", body |-> None],
          [type |-> "image", body |-> None]}

BlockSeqs == UNION {[1..n -> Blocks] : n \in 0..MaxBlocks}

\* A line of the child's stdout: whether serde_json parses it, and the
\* fields process_stream reads of the parsed value.  NumBlocks is the
\* number of content blocks the lines hold.
Blank ==
    [json |-> TRUE, type |-> "", session_id |-> None, content |-> None,
     result |-> None, is_error |-> FALSE, errors |-> None]

StreamLines ==
    {[Blank EXCEPT !.json = FALSE], [Blank EXCEPT !.type = "user"]}
    \cup {[Blank EXCEPT !.type = "system", !.session_id = sid] :
             sid \in {None, Some(<<"c1">>), Some(<<"c2">>)}}
    \cup {[Blank EXCEPT !.type = "assistant", !.content = c] :
             c \in {None} \cup {Some(bs) : bs \in BlockSeqs}}
    \cup {[Blank EXCEPT !.type = "result", !.result = t] :
             t \in {None, Some(<<>>), Some(<<"r">>)}}
    \cup {[Blank EXCEPT !.type = "result", !.is_error = TRUE, !.errors = e] :
             e \in {None, Some(<<>>), Some(<<Some(<<"e1">>)>>),
                    Some(<<Some(<<"e1">>), Some(<<"e2">>)>>),
                    Some(<<Some(<<"e1">>), None>>)}}

RECURSIVE NumBlocks(_)
NumBlocks(lines) ==
    IF lines = <<>> THEN 0
    ELSE (IF Head(lines).content = None THEN 0 ELSE Len(Head(lines).content[1]))
         + NumBlocks(Tail(lines))

\* The locals of process_stream when its loop begins, the Output events it
\* has handed to event_tx, and what it returned.
NewStream ==
    [accumulated_text |-> <<>>, claude_session_id |-> None, first_event |-> TRUE,
     out |-> <<>>, result |-> "running", reason |-> <<>>]

\* No Command has been built.
NoCommand ==
    [kind |-> "none",
     session |-> [prompt |-> <<>>, dangerously_skip_permissions |-> FALSE,
                  claude_session_id |-> None, working_directory |-> None],
     content |-> <<>>, servers |-> <<>>, mcp_config_file |-> "none",
     cwd |-> <<>>, args |-> <<>>]

\* run_with_timeout has just been called: both timers start.
NewTimed ==
    [first_event |-> TRUE, read_elapsed |-> 0, session_elapsed |-> 0,
     first_at |-> -1, reason |-> "none"]

\* No session has been created: no row in agent_sessions, none in
\* agent_messages, no task, no delete_session call.
NoStore ==
    [row |-> FALSE, claude_session_id |-> FALSE, messages |-> 0, task |-> "none",
     turns |-> 0, del |-> "idle", deletes |-> 0, deleted |-> FALSE, refused |-> 0]

TypeOK ==
    /\ DOMAIN sessions = SessionIds
    /\ DOMAIN runs = RunIds
    /\ DOMAIN calls = CallIds
    /\ cancel_senders \in [SessionIds -> RunIds \cup {0}]
    /\ mcp_servers \in BOOLEAN

\* No call has returned yet.
NoReply == [op |-> "none", id |-> 0, ret |-> FALSE]

Init ==
    /\ sessions = [s \in SessionIds |-> NoSession]
    /\ runs = [r \in RunIds |-> NoRun]
    /\ calls = [c \in CallIds |-> [pc |-> "idle", dir |-> "none", result |-> "none"]]
    /\ cancel_senders = [s \in SessionIds |-> 0]
    /\ mcp_servers \in BOOLEAN
    /\ reply = NoReply
    /\ event_tx = 0
    /\ ws_tx = <<>>
    /\ agent_rx = [alive |-> TRUE, next |-> 1, lagged |-> 0]
    /\ rx = [conn |-> "none", next |-> 1, lagged |-> 0, sent |-> 0]
    /\ stream = [input |-> <<>>, ps |-> NewStream]
    /\ cmd = NoCommand
    /\ timed = NewTimed
    /\ store = NoStore

\* ------------------------------------------------------------- registry
\* Variant: a sender that leaves the map stays alive somewhere.
DropSenderKeeps(rs, old) == rs

\* A oneshot::Sender dropped without a send: its receiver resolves (with an
\* error), which the `_ = cancel_rx` branch of run_with_timeout accepts.
DropSender(rs, old) ==
    IF old # 0 /\ rs[old].cancel_rx = "pending"
    THEN [rs EXCEPT ![old].cancel_rx = "closed"]
    ELSE rs

\* cancel_senders.lock().unwrap().insert(session_id, cancel_tx) followed by
\* tokio::spawn: the replaced sender, if any, is dropped.
RegisterAndSpawn(rs, sid, kind) ==
    [DropSender(rs, cancel_senders[sid]) EXCEPT ![NextRun] = SpawnedRun(sid, kind)]

\* ---------------------------------------------------------- start_session
\* if running.len() >= self.max_concurrent { bail }
AdmissionRejected(running) == Cardinality(running) >= max_concurrent

\* The id of the row create_agent_session inserts.
NewSessionId == CHOOSE s \in SessionIds \ ExistingSessions :
                    \A q \in SessionIds \ ExistingSessions : s <= q

\* Variant: the row is inserted before the count is looked at, so a rejected
\* call leaves a record behind.
StartListInsertsFirst(c) ==
    /\ UNCHANGED aside
    /\ calls[c].pc = "idle"
    /\ RoomForRun
    /\ SessionIds \ ExistingSessions # {}
    /\ \E dir \in DirPrefs :
          IF AdmissionRejected(RunningSessions)
          THEN /\ sessions' = [sessions EXCEPT ![NewSessionId] = NewSessionRow(dir)]
               /\ calls' = [calls EXCEPT ![c] =
                              [pc |-> "returned", dir |-> "none", result |-> "rejected"]]
          ELSE /\ calls' = [calls EXCEPT ![c] =
                              [pc |-> "checked", dir |-> dir, result |-> "none"]]
               /\ UNCHANGED sessions
    /\ UNCHANGED <<runs, cancel_senders, mcp_servers>>

\* First half of start_session, up to the await of create_agent_session.
StartList(c) ==
    /\ UNCHANGED aside
    /\ calls[c].pc = "idle"
    /\ RoomForRun
    /\ \A b \in CallIds : b < c => calls[b].pc # "idle"
    /\ \E dir \in DirPrefs :
          calls' = [calls EXCEPT ![c] =
                      IF AdmissionRejected(RunningSessions)
                      THEN [pc |-> "returned", dir |-> "none", result |-> "rejected"]
                      ELSE [pc |-> "checked", dir |-> dir, result |-> "none"]]
    /\ UNCHANGED <<sessions, runs, cancel_senders, mcp_servers>>

\* Variant: the task is spawned and the session returned, but the handle is
\* not in the map when the call returns.
StartCreateNoHandle(c) ==
    /\ UNCHANGED aside
    /\ calls[c].pc = "checked"
    /\ sessions' = [sessions EXCEPT ![NewSessionId] = NewSessionRow(calls[c].dir)]
    /\ runs' = [runs EXCEPT ![NextRun] = SpawnedRun(NewSessionId, "new")]
    /\ calls' = [calls EXCEPT ![c] = [pc |-> "returned", dir |-> "none",
                                      result |-> "admitted"]]
    /\ UNCHANGED <<cancel_senders, mcp_servers>>

\* Second half: the row is inserted, the handle registered, the task spawned
\* and the session returned.
StartCreate(c) ==
    /\ UNCHANGED aside
    /\ calls[c].pc = "checked"
    /\ LET sid == NewSessionId IN
        /\ sessions' = [sessions EXCEPT ![sid] = NewSessionRow(calls[c].dir)]
        /\ runs' = RegisterAndSpawn(runs, sid, "new")
        /\ cancel_senders' = [cancel_senders EXCEPT ![sid] = NextRun]
    /\ calls' = [calls EXCEPT ![c] = [pc |-> "returned", dir |-> "none",
                                      result |-> "admitted"]]
    /\ UNCHANGED mcp_servers

\* ----------------------------------------------------------- send_message
\* Variant: only an unknown session is refused.
SendMessageFailsUnknownOnly(sid) == sessions[sid].status = "absent"

\* The two ok_or_else errors: no such session, no claude_session_id.
SendMessageFails(sid) ==
    sessions[sid].status = "absent" \/ sessions[sid].claude_session_id = "none"

\* What send_message does to the orchestrator's state.  An unknown session
\* or one without claude_session_id is an error and nothing changes.
\* Otherwise the user message is stored (it is the first message of the new
\* run), the status is set to Running whatever it was, the handle is
\* registered in place of any earlier one and the resume task is spawned.
send_message(sid) ==
    IF SendMessageFails(sid)
    THEN UNCHANGED state
    ELSE /\ sessions' = [sessions EXCEPT ![sid] = UpdateStatus(@, "running")]
         /\ runs' = RegisterAndSpawn(runs, sid, "resume")
         /\ cancel_senders' = [cancel_senders EXCEPT ![sid] = NextRun]
         /\ UNCHANGED <<calls, mcp_servers>>

\* A send_message call; a refused call needs no free task slot.
SendMessage(sid) ==
    /\ UNCHANGED aside
    /\ SendMessageFails(sid) \/ RoomForRun
    /\ send_message(sid)

\* --------------------------------------------------------- cancel_session
\* Variant: a call that finds no handle marks the session Failed.
cancel_session_marks(sid) ==
    LET r == cancel_senders[sid] IN
    IF r = 0
    THEN /\ sessions' = [sessions EXCEPT ![sid] = UpdateStatus(@, "failed")]
         /\ UNCHANGED <<runs, calls, cancel_senders, mcp_servers>>
    ELSE /\ cancel_senders' = [cancel_senders EXCEPT ![sid] = 0]
         /\ runs' = [runs EXCEPT ![r].cancel_hit = TRUE,
                                 ![r].cancel_rx = IF @ = "pending" THEN "fired" ELSE @]
         /\ UNCHANGED <<sessions, calls, mcp_servers>>

\* Variant: the signal is sent but the entry stays in the map.
cancel_session_keeps(sid) ==
    LET r == cancel_senders[sid] IN
    IF r = 0
    THEN UNCHANGED state
    ELSE /\ runs' = [runs EXCEPT ![r].cancel_hit = TRUE,
                                 ![r].cancel_rx = IF @ = "pending" THEN "fired" ELSE @]
         /\ UNCHANGED <<sessions, calls, cancel_senders, mcp_servers>>

\* What cancel_session does to the orchestrator's state.  The sender is
\* removed and fired; cancel_hit records that the call found the handle of
\* this run and returned true.  A send to a receiver that was already
\* dropped has no effect.
cancel_session(sid) ==
    LET r == cancel_senders[sid] IN
    IF r = 0
    THEN UNCHANGED state
    ELSE /\ cancel_senders' = [cancel_senders EXCEPT ![sid] = 0]
         /\ runs' = [runs EXCEPT ![r].cancel_hit = TRUE,
                                 ![r].cancel_rx = IF @ = "pending" THEN "fired" ELSE @]
         /\ UNCHANGED <<sessions, calls, mcp_servers>>

CancelSession(sid) ==
    /\ UNCHANGED aside
    /\ cancel_session(sid)

\* ------------------------------------------------------------ the runner
\* child.kill(): a child that already exited stays exited.
Kill(child) == IF child = "running" THEN "killed" ELSE child

\* Variant: the path outlives the run function (a leaked or persisted temp).
DropLeaks(path) == path

\* Drop of the tempfile::TempDir / tempfile::NamedTempFile local when
\* run_claude_session / resume_claude_session returns: the path is removed.
Drop(path) == IF path = "exists" THEN "removed" ELSE path

\* let final_status = match result { Ok(()) => Completed, Err(e) => Failed }
FinalStatus(result) == IF result = "ok" THEN "completed" ELSE "failed"

\* The error message the task boundary stores for an Err result.
ErrorMessages(result) == IF result = "ok" THEN <<>> ELSE <<"error">>

\* The run function returns `result` (Err carries `reason`) and the spawned
\* task goes on, in the same poll, to the handle removal; the error message
\* of an Err is stored before the status is written.
Returned(rec, result, reason, child) ==
    [rec EXCEPT !.pc = "status", !.result = result, !.reason = reason,
                !.child = child,
                !.temp_dir = Drop(@), !.mcp_config_file = Drop(@),
                !.cancel_rx = "gone", !.read_elapsed = 0, !.session_elapsed = 0,
                !.final_status = FinalStatus(result),
                !.msgs = @ \o ErrorMessages(result)]

\* Variant: the returning task leaves the registry as it is.
TaskReturnsKeeps(r, rec) ==
    /\ runs' = [runs EXCEPT ![r] = rec]
    /\ UNCHANGED <<cancel_senders, calls, mcp_servers>>

\* Variant: the returning task empties the registry.
TaskReturnsClearsAll(r, rec) ==
    /\ runs' = DropSender([runs EXCEPT ![r] = rec], cancel_senders[rec.sid])
    /\ cancel_senders' = [s \in SessionIds |-> 0]
    /\ UNCHANGED <<calls, mcp_servers>>

\* cancel_senders.lock().unwrap().remove(&session_id): removes whatever
\* sender is stored under the session id and drops it.
TaskReturns(r, rec) ==
    /\ runs' = DropSender([runs EXCEPT ![r] = rec], cancel_senders[rec.sid])
    /\ cancel_senders' = [cancel_senders EXCEPT ![rec.sid] = 0]
    /\ UNCHANGED <<calls, mcp_servers>>

\* Variant: run_claude_session does not store the user message.
UserMessagesNone(kind) == <<>>

\* db.add_agent_message(session_id, "user", prompt) of run_claude_session;
\* send_message stored the user message of a resumed run itself.
UserMessages(kind) == IF kind = "new" THEN <<"user">> ELSE <<>>

\* build_mcp_config
BuildMcpConfig(servers) == IF servers THEN "exists" ELSE "none"

\* resolve_working_dir: the temp_holder after the call, for a call that
\* does not fail.
ResolveWorkingDir(explicit) == IF explicit = "none" THEN "exists" ELSE "none"

\* The user message, then build_mcp_config, resolve_working_dir,
\* configure_cmd and cmd.spawn(), which no await separates.
Launch(r) ==
    /\ UNCHANGED aside
    /\ runs[r].pc = "launch"
    /\ LET rec == runs[r]
           dir == sessions[rec.sid].working_directory
           made == [rec EXCEPT !.msgs = @ \o UserMessages(rec.kind),
                               !.mcp_config_file = BuildMcpConfig(mcp_servers)]
       IN  IF dir = "missing"
           THEN /\ TaskReturns(r, Returned(made, "err", "bad_workdir", "none"))
                /\ UNCHANGED sessions
           ELSE \E spawned \in BOOLEAN :
                  LET ready == [made EXCEPT !.temp_dir = ResolveWorkingDir(dir)] IN
                  IF spawned
                  THEN /\ runs' = [runs EXCEPT ![r] =
                                     [ready EXCEPT !.pc = "race", !.child = "running"]]
                       /\ UNCHANGED <<sessions, calls, cancel_senders,
                                      mcp_servers>>
                  ELSE /\ TaskReturns(r, Returned(ready, "err", "spawn_failed", "none"))
                       /\ UNCHANGED sessions

\* One iteration of the loop of process_stream on a line that was read.
ProcessLine(rec, line) ==
    LET seen == [rec EXCEPT !.read_elapsed = 0]
        read == [seen EXCEPT !.nlines = @ + 1]
    IN
    CASE line = "garbage" -> seen
      [] line = "other"   -> [read EXCEPT !.first_event = FALSE]
      [] line = "init"    -> [read EXCEPT !.first_event = FALSE, !.recognized = TRUE,
                                          !.claude_session_id = "c1"]
      [] line = "text"    -> [read EXCEPT !.first_event = FALSE, !.recognized = TRUE,
                                          !.accumulated_text = Append(@, "t"),
                                          !.outputs = @ + 1]
      [] line = "result"  -> IF read.accumulated_text = <<>>
                             THEN [read EXCEPT !.first_event = FALSE,
                                               !.recognized = TRUE,
                                               !.accumulated_text = <<"r">>,
                                               !.outputs = @ + 1]
                             ELSE [read EXCEPT !.first_event = FALSE,
                                               !.recognized = TRUE]
      [] line = "error"   -> [read EXCEPT !.first_event = FALSE, !.recognized = TRUE]

\* Variant: the branches of the race stay live after one of them resolved.
RacingAfterReturn(rec) == rec.pc \in {"race", "status"}

\* The task is inside the select! of run_with_timeout.
Racing(rec) == rec.pc = "race"

\* first_event and the STARTUP_TIMEOUT of the current read has elapsed.
StartupExpired(rec) == rec.first_event /\ rec.read_elapsed >= STARTUP_TIMEOUT

\* The tokio::time::timeout(SESSION_TIMEOUT, ..) of run_with_timeout elapsed.
SessionExpired(rec) == rec.session_elapsed >= SESSION_TIMEOUT

\* The cancel_rx branch of the select! is ready.
CancelReady(rec) == rec.cancel_rx \in {"fired", "closed"}

\* reader.next_line() yields a line.  A result event with is_error makes
\* process_stream bail; the child is not touched.
ReadLine(r) ==
    /\ UNCHANGED aside
    /\ Racing(runs[r])
    /\ \E line \in Lines :
         /\ line # "garbage" => runs[r].nlines < MaxLines
         /\
            LET rec == ProcessLine(runs[r], line) IN
            IF line = "error"
            THEN /\ TaskReturns(r, Returned([rec EXCEPT !.resolved = Append(@, "result_error")],
                                            "err", "result_error", rec.child))
                 /\ UNCHANGED sessions
            ELSE /\ runs' = [runs EXCEPT ![r] = rec]
                 /\ UNCHANGED <<sessions, calls, cancel_senders, mcp_servers>>

\* reader.next_line() fails: process_stream returns the error through `?`.
ReadError(r) ==
    /\ UNCHANGED aside
    /\ Racing(runs[r])
    /\ TaskReturns(r, Returned([runs[r] EXCEPT !.resolved = Append(@, "read_error")],
                               "err", "read_error", runs[r].child))
    /\ UNCHANGED sessions

\* The startup timeout of process_stream: bail, the child is not touched.
StartupTimeout(r) ==
    /\ UNCHANGED aside
    /\ Racing(runs[r])
    /\ StartupExpired(runs[r])
    /\ TaskReturns(r, Returned([runs[r] EXCEPT !.resolved = Append(@, "startup_timeout")],
                               "err", "startup_timeout", runs[r].child))
    /\ UNCHANGED sessions

\* The timeout branch of run_with_timeout: kill, then bail.
SessionTimeout(r) ==
    /\ UNCHANGED aside
    /\ Racing(runs[r])
    /\ SessionExpired(runs[r])
    /\ TaskReturns(r, Returned([runs[r] EXCEPT !.resolved = Append(@, "session_timeout")],
                               "err", "session_timeout", Kill(runs[r].child)))
    /\ UNCHANGED sessions

\* The cancel branch of run_with_timeout: kill, then bail.
Cancelled(r) ==
    /\ UNCHANGED aside
    /\ Racing(runs[r])
    /\ CancelReady(runs[r])
    /\ TaskReturns(r, Returned([runs[r] EXCEPT !.resolved = Append(@, "cancelled")],
                               "err", "cancelled", Kill(runs[r].child)))
    /\ UNCHANGED sessions

\* Variant: the continuation id is never stored.
StoredSidNever(rec) == "none"

\* The continuation id run_claude_session stores after run_with_timeout;
\* resume_claude_session discards it (`let (text, _) = ...`).
StoredSid(rec) == IF rec.kind = "new" THEN rec.claude_session_id ELSE "none"

\* End of stream: process_stream and run_with_timeout return Ok, cancel_rx is
\* dropped, the continuation id is stored, and the task waits for the child.
EndOfStream(r) ==
    /\ UNCHANGED aside
    /\ Racing(runs[r])
    /\ LET rec == runs[r] IN
        /\ runs' = [runs EXCEPT ![r] =
                      [rec EXCEPT !.pc = "wait", !.cancel_rx = "gone",
                                  !.read_elapsed = 0, !.session_elapsed = 0,
                                  !.resolved = Append(@, "eof")]]
        /\ sessions' = IF StoredSid(rec) = "none" THEN sessions
                       ELSE [sessions EXCEPT ![rec.sid] = SetClaudeSid(@, StoredSid(rec))]
    /\ UNCHANGED <<calls, cancel_senders, mcp_servers>>

\* Variant: an assistant message is stored even for empty text.
AssistantMessagesAlways(text) == <<"assistant">>

\* The assistant message stored after child.wait().
AssistantMessages(text) == IF text = <<>> THEN <<>> ELSE <<"assistant">>

\* Variant: the exit status is not looked at.
ExitResultIgnored(child) == "ok"

\* if !status.success() { bail } ... Ok(())
ExitResult(child) == IF child = "exited_ok" THEN "ok" ELSE "err"

\* drain_stderr and child.wait() return once the child has exited, with
\* success or failure; the assistant message is stored and the exit status
\* decides the result.
Finalize(r) ==
    /\ UNCHANGED aside
    /\ runs[r].pc = "wait"
    /\ runs[r].child = "exited"
    /\ \E status \in {"exited_ok", "exited_fail"} :
         LET rec == [runs[r] EXCEPT !.msgs = @ \o AssistantMessages(runs[r].accumulated_text)]
             res == ExitResult(status)
         IN  TaskReturns(r, Returned(rec, res,
                                     IF res = "ok" THEN "none" ELSE "exit_status",
                                     status))
    /\ UNCHANGED sessions

\* db.update_agent_session_status(final_status) and the StatusChanged send.
WriteStatus(r) ==
    /\ UNCHANGED aside
    /\ runs[r].pc = "status"
    /\ sessions' = [sessions EXCEPT ![runs[r].sid] = UpdateStatus(@, runs[r].final_status)]
    /\ runs' = [runs EXCEPT ![r].pc = "done", ![r].status_writes = @ + 1,
                            ![r].published = TRUE]
    /\ UNCHANGED <<calls, cancel_senders, mcp_servers>>

\* ------------------------------------------------------- the environment
\* The child process exits by itself; child.wait() learns its status.
ChildExit(r) ==
    /\ UNCHANGED aside
    /\ runs[r].pc \in {"race", "wait"}
    /\ runs[r].child = "running"
    /\ runs' = [runs EXCEPT ![r].child = "exited"]
    /\ UNCHANGED <<sessions, calls, cancel_senders, mcp_servers>>

\* d seconds pass for a call inside run_with_timeout: the session timer
\* runs on, and so does the startup timer of the read in progress.
Elapse(rec, d) ==
    [rec EXCEPT !.session_elapsed = @ + d,
                !.read_elapsed = IF rec.first_event THEN @ + d ELSE 0]

\* Time passes for every run inside run_with_timeout.  A timer that has
\* expired fires before more time passes.
Advance(rec) == IF Racing(rec) THEN Elapse(rec, Tick) ELSE rec

TimePasses ==
    /\ UNCHANGED aside
    /\ \E r \in RunIds : Racing(runs[r])
    /\ \A r \in RunIds : Racing(runs[r]) =>
           ~StartupExpired(runs[r]) /\ ~SessionExpired(runs[r])
    /\ runs' = [r \in RunIds |-> Advance(runs[r])]
    /\ UNCHANGED <<sessions, calls, cancel_senders, mcp_servers>>

\* --------------------------------------------------------- specification
RunnerStep(r) ==
    \/ Launch(r)
    \/ StartupTimeout(r)
    \/ SessionTimeout(r)
    \/ Cancelled(r)
    \/ Finalize(r)
    \/ WriteStatus(r)

Next ==
    \/ \E c \in CallIds : StartList(c)
    \/ \E c \in CallIds : StartCreate(c)
    \/ \E s \in SessionIds : SendMessage(s)
    \/ \E s \in SessionIds : CancelSession(s)
    \/ \E r \in RunIds : Launch(r)
    \/ \E r \in RunIds : ReadLine(r)
    \/ \E r \in RunIds : ReadError(r)
    \/ \E r \in RunIds : EndOfStream(r)
    \/ \E r \in RunIds : StartupTimeout(r)
    \/ \E r \in RunIds : SessionTimeout(r)
    \/ \E r \in RunIds : Cancelled(r)
    \/ \E r \in RunIds : Finalize(r)
    \/ \E r \in RunIds : WriteStatus(r)
    \/ \E r \in RunIds : ChildExit(r)
    \/ TimePasses

Spec == Init /\ [][Next]_vars

\* The tokio runtime polls a spawned task whose next step is ready, its timers
\* fire, and time passes.  Nothing is assumed of the child process: it may
\* never write, never close stdout and never exit.
FairSpec ==
    /\ Spec
    /\ \A r \in RunIds : WF_vars(RunnerStep(r))
    /\ WF_vars(TimePasses)

\* ------------------------------------------------------------ the callers
\* The same program with the callers of send_message and cancel_session in
\* view: a call returns its value in the step that makes it, and the caller
\* takes the value before anything else happens.
Taken == reply = NoReply

\* send_message returns Err(..) or Ok(()).
SendMessageCall(sid) ==
    /\ Taken
    /\ SendMessageFails(sid) \/ RoomForRun
    /\ send_message(sid)
    /\ reply' = [op |-> "send_message", id |-> sid, ret |-> ~SendMessageFails(sid)]
    /\ UNCHANGED <<bus, apart>>

\* cancel_session returns Ok(true) when remove(id) gave a sender, else Ok(false).
CancelSessionCall(sid) ==
    /\ Taken
    /\ cancel_session(sid)
    /\ reply' = [op |-> "cancel_session", id |-> sid, ret |-> cancel_senders[sid] # 0]
    /\ UNCHANGED <<bus, apart>>

TakeReply ==
    /\ ~Taken
    /\ reply' = NoReply
    /\ UNCHANGED <<state, bus, apart>>

ApiNext ==
    \/ \E s \in SessionIds : SendMessageCall(s)
    \/ \E s \in SessionIds : CancelSessionCall(s)
    \/ TakeReply
    \/ \E c \in CallIds : Taken /\ StartList(c)
    \/ \E c \in CallIds : Taken /\ StartCreate(c)
    \/ \E r \in RunIds : Taken /\ Launch(r)
    \/ \E r \in RunIds : Taken /\ ReadLine(r)
    \/ \E r \in RunIds : Taken /\ ReadError(r)
    \/ \E r \in RunIds : Taken /\ EndOfStream(r)
    \/ \E r \in RunIds : Taken /\ StartupTimeout(r)
    \/ \E r \in RunIds : Taken /\ SessionTimeout(r)
    \/ \E r \in RunIds : Taken /\ Cancelled(r)
    \/ \E r \in RunIds : Taken /\ Finalize(r)
    \/ \E r \in RunIds : Taken /\ WriteStatus(r)
    \/ \E r \in RunIds : Taken /\ ChildExit(r)
    \/ Taken /\ TimePasses

ApiSpec == Init /\ [][ApiNext]_vars

\* ------------------------------------------------------ the event buses
\* The delivery of events, apart from the runs that publish them: the agent
\* bus with the forwarding task of run_server as its subscriber, and the
\* WebSocket bus with one connection.  A bus retains its last BusCapacity
\* messages; messages are numbered from 1 in the order they were sent.

\* The oldest message a bus that has sent `count` messages still retains.
Oldest(count) == IF count > BusCapacity THEN count - BusCapacity + 1 ELSE 1

\* Receiver::recv() of a receiver whose next message is `next`: Err(Lagged(n))
\* and a jump to the oldest retained message when that one was overwritten,
\* else Ok(message) and a move to the following one.  (It waits while
\* next > count.)
Recv(next, count) ==
    IF next < Oldest(count)
    THEN [ok |-> FALSE, n |-> Oldest(count) - next, next |-> Oldest(count)]
    ELSE [ok |-> TRUE, n |-> 0, next |-> next + 1]

\* event_tx.send(..) by a run or by send_message; it never waits.
AgentSend ==
    /\ event_tx < MaxEvents
    /\ event_tx' = event_tx + 1
    /\ UNCHANGED <<state, reply, apart, ws_tx, agent_rx, rx>>

\* One turn of `while let Ok(event) = agent_rx.recv().await`: an event is
\* converted and sent on the WebSocket bus; any Err ends the loop and the task.
Forward ==
    /\ agent_rx.alive
    /\ agent_rx.next <= event_tx
    /\ LET got == Recv(agent_rx.next, event_tx) IN
        IF got.ok
        THEN /\ agent_rx' = [agent_rx EXCEPT !.next = got.next]
             /\ ws_tx' = Append(ws_tx, "agent")
        ELSE /\ agent_rx' = [agent_rx EXCEPT !.alive = FALSE, !.next = got.next,
                                              !.lagged = @ + got.n]
             /\ UNCHANGED ws_tx
    /\ UNCHANGED <<state, reply, apart, event_tx, rx>>

\* ws_tx.send(..) by another publisher: a task broadcast, a notification.
OtherSend ==
    /\ Len(ws_tx) < MaxEvents
    /\ ws_tx' = Append(ws_tx, "other")
    /\ UNCHANGED <<state, reply, apart, event_tx, agent_rx, rx>>

\* handle_socket starts: state.ws_tx.subscribe() sees the messages sent
\* from now on.
Connect ==
    /\ rx.conn = "none"
    /\ rx' = [rx EXCEPT !.conn = "open", !.next = Len(ws_tx) + 1]
    /\ UNCHANGED <<state, reply, apart, event_tx, ws_tx, agent_rx>>

\* The rx.recv() branch of the select! of handle_socket: a message is sent
\* to the socket (a failed send ends the connection); Lagged(n) is logged
\* and the loop goes on.
ClientRecv ==
    /\ rx.conn = "open"
    /\ rx.next <= Len(ws_tx)
    /\ LET got == Recv(rx.next, Len(ws_tx)) IN
        IF got.ok
        THEN \E delivered \in BOOLEAN :
                rx' = IF delivered
                      THEN [rx EXCEPT !.next = got.next, !.sent = @ + 1]
                      ELSE [rx EXCEPT !.conn = "closed"]
        ELSE rx' = [rx EXCEPT !.next = got.next, !.lagged = @ + got.n]
    /\ UNCHANGED <<state, reply, apart, event_tx, ws_tx, agent_rx>>

\* The socket.recv() branch on a Close frame, the end of the stream, or a
\* Ping whose Pong cannot be sent; any other frame changes nothing.
ClientLeaves ==
    /\ rx.conn = "open"
    /\ rx' = [rx EXCEPT !.conn = "closed"]
    /\ UNCHANGED <<state, reply, apart, event_tx, ws_tx, agent_rx>>

BusNext ==
    \/ AgentSend
    \/ Forward
    \/ OtherSend
    \/ Connect
    \/ ClientRecv
    \/ ClientLeaves

BusSpec == Init /\ [][BusNext]_vars

\* ------------------------------------------------------ the stream decoder
\* One process_stream call with every field of its lines in view, publishing
\* on the agent bus while the forwarding task keeps up, falls behind or has
\* ended.  The events of one line are published in one step.

\* event_tx.receiver_count(): the forwarding task is the bus's subscriber.
Receivers == IF agent_rx.alive THEN 1 ELSE 0

\* Variant: a send that no receiver takes fails the run.
SendOrFail(st, event, receivers) ==
    IF receivers = 0
    THEN [st EXCEPT !.result = "err", !.reason = <<"send">>]
    ELSE [st EXCEPT !.out = Append(@, event)]

\* let _ = event_tx.send(AgentEvent::Output {..}): the call does not wait,
\* and the value it returns (an Err when no receiver is subscribed) is dropped.
Send(st, event, receivers) == [st EXCEPT !.out = Append(@, event)]

\* Variant: every block with a string is accumulated.
DecodeBlockAccumulatesAll(st, block, receivers) ==
    IF block.type \in {"text", "thinking", "tool_use"} /\ block.body # None
    THEN [Send(st, [content_type |-> block.type, content |-> block.body[1]], receivers)
             EXCEPT !.accumulated_text = @ \o block.body[1]]
    ELSE st

\* One turn of `for block in content`.
DecodeBlock(st, block, receivers) ==
    IF block.type \in {"text", "thinking", "tool_use"} /\ block.body # None
    THEN LET sent == Send(st, [content_type |-> block.type, content |-> block.body[1]],
                          receivers)
         IN  IF block.type = "text"
             THEN [sent EXCEPT !.accumulated_text = @ \o block.body[1]]
             ELSE sent
    ELSE st

RECURSIVE DecodeBlocks(_, _, _)
DecodeBlocks(st, blocks, receivers) ==
    IF blocks = <<>> THEN st
    ELSE DecodeBlocks(DecodeBlock(st, Head(blocks), receivers), Tail(blocks), receivers)

\* The error text of a result event with is_error: the strings of its errors
\* array joined with "; ", or a fixed text when it has no such array.
ErrorReason(errors) ==
    IF errors = None THEN <<"Unknown error">>
    ELSE Join([i \in 1..Len(SelectSeq(errors[1], LAMBDA e : e # None)) |->
                   SelectSeq(errors[1], LAMBDA e : e # None)[i][1]], <<"; ">>)

\* Variant: an error result is passed over like any other event.
BailIgnored(st, reason) == st

\* anyhow::bail!("{errors}"): process_stream returns Err.
Bail(st, reason) == [st EXCEPT !.result = "err", !.reason = reason]

\* Variant: a line that does not parse ends the stream with an error.
UnparsedFails(st) == [st EXCEPT !.result = "err", !.reason = <<"parse">>]

\* Err(_) => continue
Unparsed(st) == st

\* One turn of the loop of process_stream on a line that was read.
DecodeLine(st, line, receivers) ==
    IF ~line.json THEN Unparsed(st)
    ELSE
    LET seen == [st EXCEPT !.first_event = FALSE] IN
    CASE line.type = "system" ->
            IF line.session_id # None
            THEN [seen EXCEPT !.claude_session_id = line.session_id]
            ELSE seen
      [] line.type = "assistant" ->
            IF line.content # None
            THEN DecodeBlocks(seen, line.content[1], receivers)
            ELSE seen
      [] line.type = "result" ->
            IF line.is_error THEN Bail(seen, ErrorReason(line.errors))
            ELSE IF seen.accumulated_text = <<>> /\ line.result # None
            THEN Send([seen EXCEPT !.accumulated_text = line.result[1]],
                      [content_type |-> "text", content |-> line.result[1]], receivers)
            ELSE seen
      [] OTHER -> seen

\* process_stream on a whole sequence of lines, with a subscriber present.
RECURSIVE ProcessStream(_)
ProcessStream(lines) ==
    IF lines = <<>> THEN NewStream
    ELSE LET st == ProcessStream(SubSeq(lines, 1, Len(lines) - 1)) IN
         IF st.result = "running" THEN DecodeLine(st, lines[Len(lines)], 1) ELSE st

\* reader.next_line() yields a line, which is decoded and its events sent.
NextLine ==
    /\ stream.ps.result = "running"
    /\ Len(stream.input) < MaxStream
    /\ \E line \in StreamLines :
         /\ NumBlocks(Append(stream.input, line)) <= MaxBlocks
         /\ LET after == DecodeLine(stream.ps, line, Receivers)
            IN  /\ stream' = [input |-> Append(stream.input, line), ps |-> after]
                /\ event_tx' = event_tx + Len(after.out) - Len(stream.ps.out)
    /\ UNCHANGED <<state, reply, store, cmd, timed, ws_tx, agent_rx, rx>>

\* reader.next_line() yields None: break, and Ok((accumulated_text, claude_session_id)).
StreamEnds ==
    /\ stream.ps.result = "running"
    /\ stream' = [stream EXCEPT !.ps.result = "ok"]
    /\ UNCHANGED <<state, reply, bus, store, cmd, timed>>

StreamNext ==
    \/ NextLine
    \/ StreamEnds
    \/ Forward

StreamSpec == Init /\ [][StreamNext]_vars

\* ------------------------------------------------------- the command line
\* The Command a run function builds for its child: the session it is for,
\* the follow-up content of a resume, the names of the manager's MCP servers
\* in the order its map yields them, and the arguments in the order of the
\* arg() calls.  An argument is a string, hence a sequence of pieces.

\* configure_cmd: the arguments it adds to those the Command has.
configure_cmd(args, skip_permissions, mcp_config_file) ==
    args \o <<<<"--print">>, <<"--output-format">>, <<"stream-json">>, <<"--verbose">>>>
         \o (IF skip_permissions THEN <<<<"--dangerously-skip-permissions">>>> ELSE <<>>)
         \o (IF mcp_config_file # "none" THEN <<<<"--mcp-config">>, <<"mcp.json">>>> ELSE <<>>)

\* format!("You have access to MCP servers: {}. Use them when relevant.", ..)
SystemNote(servers) ==
    <<"You have access to MCP servers: ">>
       \o Join([i \in DOMAIN servers |-> <<servers[i]>>], <<", ">>)
       \o <<". Use them when relevant.">>

\* The arguments of the Command of run_claude_session.
run_claude_session_cmd(prompt, servers, skip_permissions) ==
    configure_cmd(<<>>, skip_permissions, BuildMcpConfig(servers # <<>>))
       \o (IF servers # <<>>
           THEN <<<<"--append-system-prompt">>, SystemNote(servers)>> ELSE <<>>)
       \o <<prompt>>

\* Variant: a resumed child is told of the MCP servers as a new one is.
resume_claude_session_noted(claude_session_id, prompt, servers, skip_permissions) ==
    configure_cmd(<<<<"--resume">>, claude_session_id>>, skip_permissions,
                  BuildMcpConfig(servers # <<>>))
       \o (IF servers # <<>>
           THEN <<<<"--append-system-prompt">>, SystemNote(servers)>> ELSE <<>>)
       \o <<prompt>>

\* The arguments of the Command of resume_claude_session.
resume_claude_session_cmd(claude_session_id, prompt, servers, skip_permissions) ==
    configure_cmd(<<<<"--resume">>, claude_session_id>>, skip_permissions,
                  BuildMcpConfig(servers # <<>>))
       \o <<prompt>>

\* The manager's MCP server map, as the names its keys() yields.
ServerLists ==
    IF mcp_servers THEN {<<"s1">>, <<"s1", "s2">>, <<"s2", "s1">>} ELSE {<<>>}

\* A session row as create_agent_session makes it.
CommandSessions ==
    [prompt : {<<"p1">>, <<"p2">>}, dangerously_skip_permissions : BOOLEAN,
     claude_session_id : {None}, working_directory : {None, Some(<<"dir">>)}]

\* The task of start_session builds the Command of a new session.
StartCommand ==
    /\ \E session \in CommandSessions, servers \in ServerLists :
         cmd' = [kind |-> "new", session |-> session, content |-> <<>>,
                 servers |-> servers,
                 mcp_config_file |-> BuildMcpConfig(servers # <<>>),
                 cwd |-> IF session.working_directory = None THEN <<"tmp">>
                         ELSE session.working_directory[1],
                 args |-> run_claude_session_cmd(session.prompt, servers,
                                                 session.dangerously_skip_permissions)]
    /\ UNCHANGED <<state, reply, bus, store, stream, timed>>

\* The task of send_message builds the Command of a resume, for a session
\* that has a continuation id.
ResumeCommand ==
    /\ \E session \in CommandSessions, servers \in ServerLists,
          csid \in {<<"c1">>, <<"c2">>}, content \in {<<"m1">>, <<"m2">>} :
         cmd' = [kind |-> "resume",
                 session |-> [session EXCEPT !.claude_session_id = Some(csid)],
                 content |-> content,
                 servers |-> servers,
                 mcp_config_file |-> BuildMcpConfig(servers # <<>>),
                 cwd |-> IF session.working_directory = None THEN <<"tmp">>
                         ELSE session.working_directory[1],
                 args |-> resume_claude_session_cmd(csid, content, servers,
                                                    session.dangerously_skip_permissions)]
    /\ UNCHANGED <<state, reply, bus, store, stream, timed>>

CmdNext ==
    \/ StartCommand
    \/ ResumeCommand

CmdSpec == Init /\ [][CmdNext]_vars

\* ------------------------------------------------------------ the timers
\* One run_with_timeout call with the clock in steps of Slice seconds:
\* session_elapsed counts from the call, read_elapsed from the start of the
\* read in progress while first_event is set, and first_at is the value of
\* session_elapsed when the first line that parses was read.  A timer that
\* has expired fires before more time passes.

\* reader.next_line() yields a line, which parses or does not.
TimedLine ==
    /\ timed.reason = "none"
    /\ \E parsed \in BOOLEAN :
         timed' = IF parsed
                  THEN [timed EXCEPT !.first_event = FALSE, !.read_elapsed = 0,
                                     !.first_at = IF timed.first_event
                                                  THEN timed.session_elapsed ELSE @]
                  ELSE [timed EXCEPT !.read_elapsed = 0]
    /\ UNCHANGED <<state, reply, bus, store, stream, cmd>>

TimedTick ==
    /\ timed.reason = "none"
    /\ ~StartupExpired(timed)
    /\ ~SessionExpired(timed)
    /\ timed' = Elapse(timed, Slice)
    /\ UNCHANGED <<state, reply, bus, store, stream, cmd>>

\* The timeout(STARTUP_TIMEOUT, ..) of process_stream elapsed.
TimedStartupTimeout ==
    /\ timed.reason = "none"
    /\ StartupExpired(timed)
    /\ timed' = [timed EXCEPT !.reason = "startup_timeout"]
    /\ UNCHANGED <<state, reply, bus, store, stream, cmd>>

\* The timeout(SESSION_TIMEOUT, ..) of run_with_timeout elapsed.
TimedSessionTimeout ==
    /\ timed.reason = "none"
    /\ SessionExpired(timed)
    /\ timed' = [timed EXCEPT !.reason = "session_timeout"]
    /\ UNCHANGED <<state, reply, bus, store, stream, cmd>>

\* End of stream: run_with_timeout returns Ok.
TimedEnd ==
    /\ timed.reason = "none"
    /\ timed' = [timed EXCEPT !.reason = "eof"]
    /\ UNCHANGED <<state, reply, bus, store, stream, cmd>>

TimedNext ==
    \/ TimedLine
    \/ TimedTick
    \/ TimedStartupTimeout
    \/ TimedSessionTimeout
    \/ TimedEnd

TimedSpec == Init /\ [][TimedNext]_vars

Started(r) == runs[r].pc # "unborn"
Returning(r) == runs[r].pc \in {"status", "done"}
Done(r) == runs[r].pc = "done"
ErrorCount(r) == Cardinality({i \in DOMAIN runs[r].msgs : runs[r].msgs[i] = "error"})

\* ------------------------------------------------------------------ C1
\* C1: in every reachable state the number of sessions whose persisted
\* status is Running is at most max_concurrent.
C1_RunningWithinCeiling == Cardinality(RunningSessions) <= max_concurrent

\* ------------------------------------------------------------------ C2
AllCallsReturned == \A c \in CallIds : calls[c].pc = "returned"
Admitted == {c \in CallIds : calls[c].result = "admitted"}
Rejected == {c \in CallIds : calls[c].result = "rejected"}
\* No session has left Running and none was resumed since the calls began.
BurstOnly ==
    /\ \A s \in ExistingSessions : sessions[s].status = "running"
    /\ \A r \in RunIds : runs[r].kind # "resume"

\* C2: when N > max_concurrent start_session calls issued while no session
\* was Running have all returned, exactly max_concurrent were admitted and
\* N - max_concurrent were rejected.
C2_ExactAdmissions ==
    (AllCallsReturned /\ BurstOnly /\ MaxCalls > max_concurrent) =>
        /\ Cardinality(Admitted) = max_concurrent
        /\ Cardinality(Rejected) = MaxCalls - max_concurrent

\* ------------------------------------------------------------------ C3
\* C3: every spawned run eventually persists a terminal status and publishes
\* the terminal StatusChanged, whatever the child process does.
C3_EveryRunTerminates ==
    \A r \in RunIds : Started(r) ~> (Done(r) /\ runs[r].published)

\* ------------------------------------------------------------------ C4
\* C4: a run whose handle cancel_session found (it returned true) ends with
\* its child terminated and with the cancelled failure reason.
C4_CancelEndsRun ==
    \A r \in RunIds :
        (runs[r].cancel_hit /\ Returning(r)) =>
            /\ runs[r].reason = "cancelled"
            /\ runs[r].final_status = "failed"
            /\ runs[r].child # "running"

\* ------------------------------------------------------------------ C5
\* C5: when a run has failed by startup timeout, session timeout or
\* cancellation, its child has been killed by the time the failure is stored.
C5_KilledBeforeFailure ==
    \A r \in RunIds :
        (Returning(r) /\ runs[r].reason \in {"startup_timeout", "session_timeout",
                                             "cancelled"}) =>
            runs[r].child # "running"

\* ------------------------------------------------------------------ C6
\* C6: once a run's terminal status is published, its child process is no
\* longer running, on every exit path.
C6_NoLiveChildAtEnd ==
    \A r \in RunIds : runs[r].published => runs[r].child # "running"

\* ------------------------------------------------------------------ C7
\* C7: once a run function has returned (so before the terminal status is
\* persisted and published) the run's ephemeral working directory and its
\* MCP configuration file no longer exist, on every exit path.
C7_TempsRemoved ==
    \A r \in RunIds :
        Returning(r) =>
            /\ runs[r].temp_dir # "exists"
            /\ runs[r].mcp_config_file # "exists"

\* A cancelled run that had created both and has published its status.
C7_Witness ==
    \E r \in RunIds :
        /\ Done(r) /\ runs[r].reason = "cancelled"
        /\ runs[r].temp_dir = "removed"
        /\ runs[r].mcp_config_file = "removed"

\* ------------------------------------------------------------------ C8
\* C8: a run resolves by at most one outcome of the race, stores at most one
\* error message and writes its terminal status once: never twice, and
\* exactly once when it is done.
C8_OneOutcome ==
    \A r \in RunIds :
        /\ Len(runs[r].resolved) <= 1
        /\ ErrorCount(r) <= 1
        /\ runs[r].status_writes <= 1
        /\ Done(r) => runs[r].status_writes = 1

\* The session timeout won a race in which the cancellation was ready too.
C8_Witness ==
    \E r \in RunIds :
        /\ Done(r) /\ runs[r].cancel_hit
        /\ runs[r].resolved = <<"session_timeout">>
        /\ ErrorCount(r) = 1

\* ------------------------------------------------------------------ C9
\* C9: a run's terminal status is Completed exactly when the stream ended at
\* end of stream and the child exited with success; otherwise it is Failed
\* and exactly one error message is stored before the status is written.
C9_CompletedIff ==
    \A r \in RunIds :
        Returning(r) =>
            /\ runs[r].final_status = "completed" <=>
                   (runs[r].resolved = <<"eof">> /\ runs[r].child = "exited_ok")
            /\ runs[r].final_status \in {"completed", "failed"}
            /\ runs[r].final_status = "failed" =>
                   (ErrorCount(r) = 1 /\ runs[r].reason # "none")
            /\ runs[r].final_status = "completed" => ErrorCount(r) = 0

\* The stream ended normally but the child exited with a failure status.
C9_Witness ==
    \E r \in RunIds :
        /\ Done(r) /\ runs[r].resolved = <<"eof">>
        /\ runs[r].child = "exited_fail"
        /\ runs[r].final_status = "failed"

\* ------------------------------------------------------------------ C10
\* C10: a run that never decoded a recognized event (its child was silent
\* or wrote only unparseable lines and events of unrecognized type) and
\* failed by a timeout failed by the startup timeout, never by the session
\* timeout.
C10_StartupNotSessionTimeout ==
    \A r \in RunIds :
        (Returning(r) /\ ~runs[r].recognized
            /\ runs[r].reason \in {"startup_timeout", "session_timeout"}) =>
                runs[r].reason = "startup_timeout"

\* ------------------------------------------------------------------ C11
\* run_claude_session / resume_claude_session has been called for the run
\* and has not returned.
Active(r) == runs[r].pc \in {"launch", "race", "wait"}

\* C11: at any time at most one run function is active for a session id.
C11_OneRunnerPerSession ==
    \A r, q \in RunIds :
        (r # q /\ Active(r) /\ Active(q)) => runs[r].sid # runs[q].sid

\* ------------------------------------------------------------------ C12
\* The runs of session s whose sender is alive: neither sent nor dropped.
LiveHandles(s) == {r \in RunIds : runs[r].sid = s /\ runs[r].cancel_rx = "pending"}

\* C12: a session id has at most one cancellation handle: the entry of the
\* map belongs to a run of that session, and a run whose handle is alive is
\* the one the map holds, so a replaced handle is gone in the step that
\* registers the new one.
C12_OneHandlePerSession ==
    /\ \A s \in SessionIds :
          /\ Cardinality(LiveHandles(s)) <= 1
          /\ cancel_senders[s] # 0 =>
                (Started(cancel_senders[s]) /\ runs[cancel_senders[s]].sid = s)
    /\ \A r \in RunIds :
          runs[r].cancel_rx = "pending" => cancel_senders[runs[r].sid] = r

\* send_message registered the handle of a second run while the first run of
\* the session had not returned: the map holds the new handle only.
C12_Witness ==
    \E r, q \in RunIds :
        /\ r # q /\ runs[r].sid = runs[q].sid
        /\ Active(r) /\ runs[q].cancel_rx = "pending"
        /\ cancel_senders[runs[q].sid] = q

\* ------------------------------------------------------------------ C13
\* The changes of a persisted status the claim allows: the insert of the
\* row, Running to Completed or Failed, and Completed or Failed to Running.
AllowedTransitions ==
    {<<"absent", "running">>,
     <<"running", "completed">>, <<"running", "failed">>,
     <<"completed", "running">>, <<"failed", "running">>}

\* C13: every change of a session's persisted status is one of the allowed
\* transitions; in particular never Completed to Failed or Failed to
\* Completed.
C13_StatusTransitions ==
    [][\A s \in SessionIds :
          sessions'[s].status # sessions[s].status =>
              <<sessions[s].status, sessions'[s].status>> \in AllowedTransitions]_vars

\* ------------------------------------------------------------------ C15
\* C15: a start_session call whose explicit working directory does not
\* exist creates nothing: no session record carries such a directory, no
\* handle is registered for it and no run is spawned for it.
C15_MissingDirRejected ==
    \A s \in SessionIds :
        sessions[s].working_directory = "missing" =>
            /\ sessions[s].status = "absent"
            /\ cancel_senders[s] = 0
            /\ \A r \in RunIds : runs[r].sid # s

\* ------------------------------------------------------------------ C16
\* C16: the step in which start_session is rejected at the ceiling changes
\* nothing but the call itself: no session record, message, handle or run
\* is created or changed, and no other call is affected.
C16_RejectionChangesNothing ==
    [][\A c \in CallIds :
          (calls[c].result # "rejected" /\ calls'[c].result = "rejected") =>
              /\ UNCHANGED <<sessions, runs, cancel_senders>>
              /\ \A b \in CallIds \ {c} : calls'[b] = calls[b]]_vars

\* A call was rejected while the ceiling was reached, and the records that
\* exist are those of the admitted calls.
C16_Witness ==
    \E c \in CallIds :
        /\ calls[c].result = "rejected"
        /\ Cardinality(RunningSessions) >= max_concurrent
        /\ Cardinality(ExistingSessions) = Cardinality(Admitted)

\* ------------------------------------------------------------------ C17
\* C17: in the step in which start_session returns a session, the record of
\* a new session is persisted with status Running, a handle for its id is
\* in the map, and the run it belongs to has been spawned but has not taken
\* a step: the call waits for no part of the subprocess run.
C17_ReturnsRegistered ==
    [][\A c \in CallIds :
          (calls[c].result # "admitted" /\ calls'[c].result = "admitted") =>
              \E s \in SessionIds :
                  /\ sessions[s].status = "absent"
                  /\ sessions'[s].status = "running"
                  /\ cancel_senders'[s] # 0
                  /\ runs[cancel_senders'[s]] = NoRun
                  /\ runs'[cancel_senders'[s]] = SpawnedRun(s, "new")]_vars

\* A cancel_session issued right after the return found the handle, before
\* the spawned task had taken its first step.
C17_Witness ==
    \E r \in RunIds :
        /\ runs[r].kind = "new" /\ runs[r].pc = "launch"
        /\ runs[r].cancel_hit
        /\ sessions[runs[r].sid].status = "running"
        /\ \E c \in CallIds : calls[c].result = "admitted"

\* ------------------------------------------------------------------ C14
\* C14: a send_message call on an unknown session or on one without a
\* recorded continuation id returns an error and changes nothing: no
\* message, no status change, no handle, no run.
C14_ResumeWithoutIdFails ==
    [][\A s \in SessionIds :
          (Taken /\ reply'.op = "send_message" /\ reply'.id = s
              /\ (sessions[s].status = "absent"
                      \/ sessions[s].claude_session_id = "none")) =>
                  (~reply'.ret /\ UNCHANGED state)]_vars

\* The call was refused for a session that exists, is Running and has a
\* registered handle, but has no continuation id yet.
C14_Witness ==
    \E s \in SessionIds :
        /\ reply = [op |-> "send_message", id |-> s, ret |-> FALSE]
        /\ sessions[s].status = "running"
        /\ sessions[s].claude_session_id = "none"
        /\ cancel_senders[s] # 0

\* ------------------------------------------------------------------ C18
\* C18: a cancel_session call for an id with no handle in the map returns
\* false and changes nothing: no run, session, message or other handle.
C18_CancelUnknownNoEffect ==
    [][\A s \in SessionIds :
          (Taken /\ reply'.op = "cancel_session" /\ reply'.id = s
              /\ cancel_senders[s] = 0) =>
                  (~reply'.ret /\ UNCHANGED state)]_vars

\* The call returned false while another session had a registered handle
\* and a run inside the race.
C18_Witness ==
    \E s, t \in SessionIds :
        /\ s # t
        /\ reply = [op |-> "cancel_session", id |-> s, ret |-> FALSE]
        /\ cancel_senders[t] # 0
        /\ Racing(runs[cancel_senders[t]])

\* ------------------------------------------------------------------ C19
\* The runs whose receiver gets the signal in this step.
Signalled == {r \in RunIds : runs[r].cancel_rx # "fired" /\ runs'[r].cancel_rx = "fired"}

\* C19: cancel_session(id) returns true exactly when the map held a handle
\* for id and leaves no handle for id behind, so further calls return false
\* until a handle is registered again, which only the spawn of a new run
\* does; the signal reaches at most one run, the one whose handle was held.
C19_HandleSingleUse ==
    [][\A s \in SessionIds :
          /\ (Taken /\ reply'.op = "cancel_session" /\ reply'.id = s) =>
                 /\ reply'.ret = (cancel_senders[s] # 0)
                 /\ cancel_senders'[s] = 0
                 /\ Signalled \subseteq {cancel_senders[s]}
          /\ (cancel_senders[s] = 0 /\ cancel_senders'[s] # 0) =>
                 /\ runs[cancel_senders'[s]] = NoRun
                 /\ runs'[cancel_senders'[s]].pc = "launch"]_vars

\* A second cancel_session returned false while the signal of the first was
\* still waiting to be seen by the run.
C19_Witness ==
    \E r \in RunIds :
        /\ reply = [op |-> "cancel_session", id |-> runs[r].sid, ret |-> FALSE]
        /\ runs[r].cancel_hit
        /\ runs[r].cancel_rx = "fired"
        /\ Racing(runs[r])

\* ------------------------------------------------------------------ C20
\* C20: the step in which a subscriber of a bus learns that it lagged
\* leaves it subscribed: the forwarding task goes on receiving from the
\* agent bus, the WebSocket connection from the WebSocket bus.
C20_LaggingStaysSubscribed ==
    [][/\ agent_rx'.lagged > agent_rx.lagged => agent_rx'.alive
       /\ rx'.lagged > rx.lagged => rx'.conn = "open"]_vars

\* ----------------------------------------------------------------- C21
\* C21: publishing never blocks or fails a run.  Whatever the subscriber of
\* the agent bus does (keeps up, falls behind, has ended), a run that can
\* read a line decodes and publishes it at once, and its accumulated text,
\* continuation id, Output events, failure and terminal status are those of
\* the same lines decoded with a subscriber present.
C21_PublishNeverBlocks ==
    /\ (stream.ps.result = "running" /\ Len(stream.input) < MaxStream)
          => ENABLED NextLine
    /\ LET fast == ProcessStream(stream.input) IN
        /\ stream.ps.accumulated_text = fast.accumulated_text
        /\ stream.ps.claude_session_id = fast.claude_session_id
        /\ stream.ps.out = fast.out
        /\ stream.ps.reason = fast.reason
        /\ (stream.ps.result = "err") = (fast.result = "err")
        /\ stream.ps.result # "running" =>
              FinalStatus(stream.ps.result)
                 = FinalStatus(IF fast.result = "err" THEN "err" ELSE "ok")

\* A run ended normally after publishing an event that no subscriber was
\* left to receive: the forwarding task had fallen behind and ended.
C21_Witness ==
    /\ stream.ps.result = "ok"
    /\ ~agent_rx.alive
    /\ Oldest(event_tx) > agent_rx.next

\* ----------------------------------------------------------------- C22
\* C22: decoding an assistant event publishes exactly one Output event for
\* each of its text, thinking and tool_use blocks, in the order of the
\* blocks, carrying the block's text, thinking content or tool name; and it
\* appends to the accumulated text the texts of its text blocks, in order,
\* and nothing else.
C22_OneOutputPerBlock ==
    [][(stream'.input # stream.input
        /\ stream'.input[Len(stream'.input)].json
        /\ stream'.input[Len(stream'.input)].type = "assistant"
        /\ stream'.input[Len(stream'.input)].content # None) =>
          LET blocks == stream'.input[Len(stream'.input)].content[1]
              carrying == SelectSeq(blocks, LAMBDA b :
                              b.type \in {"text", "thinking", "tool_use"} /\ b.body # None)
              texts == SelectSeq(carrying, LAMBDA b : b.type = "text")
          IN  /\ stream'.ps.out = stream.ps.out \o
                    [i \in 1..Len(carrying) |->
                        [content_type |-> carrying[i].type, content |-> carrying[i].body[1]]]
              /\ stream'.ps.accumulated_text = stream.ps.accumulated_text \o
                    Join([i \in 1..Len(texts) |-> texts[i].body[1]], <<>>)]_vars

\* One assistant event with a thinking block and then a text block was
\* decoded.
C22_Witness ==
    /\ Len(stream.input) = 1
    /\ stream.ps.out = <<[content_type |-> "thinking", content |-> <<"h">>],
                         [content_type |-> "text", content |-> <<"b">>]>>
    /\ stream.ps.accumulated_text = <<"b">>

\* ----------------------------------------------------------------- C23
\* C23: decoding a result event without is_error, when no text has been
\* accumulated, makes the result's text the accumulated text and publishes
\* exactly one text Output event for it; when text has been accumulated it
\* changes nothing and publishes nothing.  Over a whole stream at most one
\* Output event comes from result events: the events published exceed the
\* blocks of the assistant events that carry a string by at most one.
C23_ResultTextOnce ==
    [][stream'.input # stream.input =>
         LET line == stream'.input[Len(stream'.input)]
             lines == stream'.input
             carrying == {p \in (DOMAIN lines) \X (1..MaxBlocks) :
                            /\ lines[p[1]].json
                            /\ lines[p[1]].type = "assistant"
                            /\ lines[p[1]].content # None
                            /\ p[2] \in DOMAIN lines[p[1]].content[1]
                            /\ lines[p[1]].content[1][p[2]].type
                                  \in {"text", "thinking", "tool_use"}
                            /\ lines[p[1]].content[1][p[2]].body # None}
         IN  /\ (line.json /\ line.type = "result" /\ ~line.is_error) =>
                  /\ (stream.ps.accumulated_text = <<>> /\ line.result # None) =>
                        /\ stream'.ps.accumulated_text = line.result[1]
                        /\ stream'.ps.out = Append(stream.ps.out,
                              [content_type |-> "text", content |-> line.result[1]])
                  /\ stream.ps.accumulated_text # <<>> =>
                        /\ stream'.ps.accumulated_text = stream.ps.accumulated_text
                        /\ stream'.ps.out = stream.ps.out
             /\ Len(stream'.ps.out) - Cardinality(carrying) <= 1]_vars

\* ----------------------------------------------------------------- C24
\* C24: decoding a result event with is_error fails the run in that step:
\* the failure reason is the strings of its errors array joined (a fixed
\* "Unknown error" when it has no errors array), the terminal status is
\* Failed, no Output event is published for it, and after the failure no
\* further line is decoded and no further event is published.
C24_ErrorResultFails ==
    [][/\ (/\ stream'.input # stream.input
           /\ stream'.input[Len(stream'.input)].json
           /\ stream'.input[Len(stream'.input)].type = "result"
           /\ stream'.input[Len(stream'.input)].is_error) =>
             LET errors == stream'.input[Len(stream'.input)].errors
                 strings == IF errors = None THEN <<>>
                            ELSE SelectSeq(errors[1], LAMBDA e : e # None)
             IN  /\ stream'.ps.result = "err"
                 /\ FinalStatus(stream'.ps.result) = "failed"
                 /\ stream'.ps.reason =
                       IF errors = None THEN <<"Unknown error">>
                       ELSE Join([i \in 1..Len(strings) |-> strings[i][1]], <<"; ">>)
                 /\ stream'.ps.out = stream.ps.out
                 /\ event_tx' = event_tx
       /\ stream.ps.result = "err" => (stream' = stream /\ event_tx' = event_tx)]_vars

\* A run that had published an event failed on an error result with two
\* error strings, and the forwarding task ran afterwards.
C24_Witness ==
    /\ stream.ps.result = "err"
    /\ stream.ps.reason = <<"e1", "; ", "e2">>
    /\ stream.ps.out # <<>>
    /\ agent_rx.next > event_tx

C26_SidStoredAtEof ==
    /\ \A r \in RunIds :
          (/\ runs[r].kind = "new"
           /\ \E i \in DOMAIN runs[r].resolved : runs[r].resolved[i] = "eof"
           /\ runs[r].claude_session_id # "none") =>
             /\ sessions[runs[r].sid].claude_session_id = runs[r].claude_session_id
             /\ ~SendMessageFails(runs[r].sid)
    /\ \A s \in ExistingSessions :
          sessions[s].claude_session_id # "none" =>
             \E r \in RunIds :
                /\ runs[r].sid = s
                /\ runs[r].kind = "new"
                /\ \E i \in DOMAIN runs[r].resolved : runs[r].resolved[i] = "eof"
                /\ runs[r].claude_session_id = sessions[s].claude_session_id

\* A new-session run decoded an init event, reached the end of its stream,
\* and then failed on the child's exit status; its session was resumed.
C26_Witness ==
    \E r, q \in RunIds :
        /\ runs[r].kind = "new"
        /\ runs[r].reason = "exit_status"
        /\ runs[r].pc = "done"
        /\ sessions[runs[r].sid].claude_session_id = "c1"
        /\ runs[q].kind = "resume"
        /\ runs[q].sid = runs[r].sid

\* ----------------------------------------------------------------- C27
\* C27: the messages a run persists are, in the order of their insertion,
\* its user message, then at most one assistant message, then at most one
\* error message: no assistant or error message comes before the run's user
\* message and no assistant message after its error message.  A session's
\* first message is the user message of its first run: a later run of the
\* session exists only once the first run has stored its user message.
C27_MessageOrder ==
    /\ \A r \in RunIds :
          runs[r].msgs \in {<<>>, <<"user">>, <<"user", "assistant">>,
                            <<"user", "error">>, <<"user", "assistant", "error">>}
    /\ \A q \in RunIds :
          runs[q].kind = "resume" =>
             \E r \in RunIds : /\ runs[r].kind = "new"
                               /\ runs[r].sid = runs[q].sid
                               /\ runs[r].msgs # <<>>
                               /\ runs[r].msgs[1] = "user"

\* A first run stored its user message and an error message, and a resumed
\* run of the same session its user message, an assistant message and an
\* error message.
C27_Witness ==
    \E r, q \in RunIds :
        /\ runs[r].kind = "new"
        /\ runs[r].msgs = <<"user", "error">>
        /\ runs[q].kind = "resume"
        /\ runs[q].sid = runs[r].sid
        /\ runs[q].msgs = <<"user", "assistant", "error">>

\* ----------------------------------------------------------------- C28
\* C28: a failure of a run stays within its session.  The step in which a
\* run fails stores one error message for it and fixes Failed as the status
\* it will write, and neither that step nor the write of the status changes
\* the row, the handle or a task of any other session.
C28_FailureConfined ==
    [][\A r \in RunIds :
         /\ (runs[r].result # "err" /\ runs'[r].result = "err") =>
              /\ ErrorCount(r)' = 1
              /\ runs'[r].final_status = "failed"
              /\ \A s \in SessionIds \ {runs'[r].sid} :
                    sessions'[s] = sessions[s] /\ cancel_senders'[s] = cancel_senders[s]
              /\ \A q \in RunIds : runs[q].sid # runs'[r].sid => runs'[q] = runs[q]
         /\ (runs[r].result = "err" /\ runs[r].pc = "status" /\ runs'[r].pc = "done") =>
              /\ sessions'[runs[r].sid].status = "failed"
              /\ runs'[r].published
              /\ \A s \in SessionIds \ {runs[r].sid} : sessions'[s] = sessions[s]
              /\ \A q \in RunIds \ {r} : runs'[q] = runs[q]
              /\ cancel_senders' = cancel_senders]_vars

\* One session's run has failed and its Failed status is written while the
\* run of another session is still inside run_with_timeout, Running, with
\* its handle registered.
C28_Witness ==
    \E r, q \in RunIds :
        /\ runs[r].result = "err"
        /\ runs[r].pc = "done"
        /\ sessions[runs[r].sid].status = "failed"
        /\ runs[q].sid # runs[r].sid
        /\ Racing(runs[q])
        /\ cancel_senders[runs[q].sid] = q
        /\ sessions[runs[q].sid].status = "running"

\* ----------------------------------------------------------------- C29
\* C29: the argument list of a new-session child ends with the prompt,
\* preceded by the flag and the note that lists the MCP servers exactly when
\* servers are configured; that of a resumed child carries the resume flag
\* followed by the continuation id, ends with the follow-up content, and
\* holds neither the session's prompt nor a note.  Both carry the same
\* streaming-output flags, the permission-bypass flag exactly when the
\* session's flag is set, and the config-file flag with the file's path
\* exactly when a config file was created.
C29_InvocationContract ==
    cmd.kind # "none" =>
      LET a == cmd.args
          n == Len(a)
          Has(x) == \E i \in 1..n : a[i] = x
          IsNote(x) == x # <<>> /\ x[1] = "You have access to MCP servers: "
      IN  /\ \E i \in 1..(n - 3) :
                SubSeq(a, i, i + 3) = <<<<"--print">>, <<"--output-format">>,
                                        <<"stream-json">>, <<"--verbose">>>>
          /\ Has(<<"--dangerously-skip-permissions">>)
                = cmd.session.dangerously_skip_permissions
          /\ Has(<<"--mcp-config">>) = (cmd.mcp_config_file # "none")
          /\ cmd.mcp_config_file # "none" =>
                \E i \in 1..(n - 1) : a[i] = <<"--mcp-config">> /\ a[i + 1] = <<"mcp.json">>
          /\ cmd.kind = "new" =>
                /\ a[n] = cmd.session.prompt
                /\ cmd.servers # <<>> =>
                      /\ a[n - 2] = <<"--append-system-prompt">>
                      /\ IsNote(a[n - 1])
                      /\ \A j \in DOMAIN cmd.servers :
                            \E k \in DOMAIN a[n - 1] : a[n - 1][k] = cmd.servers[j]
                /\ cmd.servers = <<>> =>
                      /\ ~Has(<<"--append-system-prompt">>)
                      /\ \A i \in 1..n : ~IsNote(a[i])
          /\ cmd.kind = "resume" =>
                /\ \E i \in 1..(n - 1) :
                      a[i] = <<"--resume">> /\ Some(a[i + 1]) = cmd.session.claude_session_id
                /\ a[n] = cmd.content
                /\ ~Has(cmd.session.prompt)
                /\ ~Has(<<"--append-system-prompt">>)
                /\ \A i \in 1..n : ~IsNote(a[i])

\* A resume was built for a session with the bypass flag set while two MCP
\* servers are configured.
C29_Witness ==
    /\ cmd.kind = "resume"
    /\ cmd.session.dangerously_skip_permissions
    /\ Len(cmd.servers) = 2
    /\ Len(cmd.args) = 10

\* ----------------------------------------------------------------- C30
\* C30: once the first event has been decoded no read is under the startup
\* timeout, and the session timeout is measured from the arrival of that
\* event: a run whose first event arrived first_at seconds after the spawn
\* does not fail with the session timeout before first_at + SESSION_TIMEOUT.
C30_SessionTimeoutFromFirstEvent ==
    /\ ~timed.first_event => timed.reason # "startup_timeout"
    /\ (timed.reason = "session_timeout" /\ timed.first_at >= 0) =>
          timed.session_elapsed >= timed.first_at + SESSION_TIMEOUT

\* ----------------------------------------------------------------- C31
\* C31: a run that is about to write its terminal status, or has written
\* it, no longer has its handle in the registry; it writes the status and
\* publishes the terminal StatusChanged once, with the status it wrote, and
\* publishes no Output event afterwards.
C31_RemoveThenStatusThenPublish ==
    [][\A r \in RunIds :
         /\ runs'[r].pc \in {"status", "done"} => cancel_senders'[runs'[r].sid] # r
         /\ runs'[r].published = (runs'[r].pc = "done")
         /\ runs'[r].status_writes = (IF runs'[r].pc = "done" THEN 1 ELSE 0)
         /\ (~runs[r].published /\ runs'[r].published) =>
               /\ runs[r].pc = "status"
               /\ sessions'[runs[r].sid].status = runs[r].final_status
               /\ runs'[r].final_status = runs[r].final_status
         /\ runs[r].published => /\ runs'[r].outputs = runs[r].outputs
                                 /\ runs'[r].published
                                 /\ runs'[r].final_status = runs[r].final_status]_vars

\* A run published an Output event, removed its handle and then wrote and
\* published Completed.
C31_Witness ==
    \E r \in RunIds :
        /\ runs[r].published
        /\ runs[r].outputs > 0
        /\ runs[r].final_status = "completed"
        /\ sessions[runs[r].sid].status = "completed"

\* ----------------------------------------------------------------- C32
\* C32: a run ends with the cancelled failure reason only if a
\* cancel_session call found its handle and returned true; nothing else
\* makes a run end as cancelled.
C32_CancelledOnlyByCancel ==
    \A r \in RunIds : runs[r].reason = "cancelled" => runs[r].cancel_hit

C34_HandleImpliesRunning ==
    \A s \in SessionIds :
        cancel_senders[s] # 0 => sessions[s].status = "running"

\* ----------------------------------------------------------------- C35
\* C35: when a run has decoded an init event that carries a session id, the
\* session's continuation id is stored by the time the run's terminal
\* status is published, whatever the outcome of the run.
C35_SidStoredWhateverOutcome ==
    \A r \in RunIds :
        (runs[r].published /\ runs[r].claude_session_id # "none")
        => sessions[runs[r].sid].claude_session_id # "none"

\* C35, as the code has it: a new-session run that decoded an init event
\* with a session id and has published its terminal status has stored the
\* id exactly when its stream reached its end (whatever the exit status of
\* the child); when it ended by a timeout, a cancellation, a read error or
\* a result-event error, the session has no continuation id.
C35_SidStoredOnlyAtStreamEnd ==
    \A r \in RunIds :
        (runs[r].published /\ runs[r].kind = "new" /\ runs[r].claude_session_id # "none")
        => sessions[runs[r].sid].claude_session_id =
              (IF runs[r].reason \in {"none", "exit_status"}
               THEN runs[r].claude_session_id ELSE "none")

\* Both cases side by side: one session's run was cancelled after its init
\* event, another's reached the end of its stream and failed on exit.
C35_Witness ==
    \E r, q \in RunIds :
        /\ runs[r].published /\ runs[r].kind = "new"
        /\ runs[r].claude_session_id = "c1"
        /\ runs[r].reason \in {"cancelled", "session_timeout", "result_error"}
        /\ sessions[runs[r].sid].claude_session_id = "none"
        /\ runs[q].published /\ runs[q].kind = "new"
        /\ runs[q].reason = "exit_status"
        /\ sessions[runs[q].sid].claude_session_id = "c1"

\* ----------------------------------------------------------------- C36
\* C36: a run that has returned stored an assistant message if and only if
\* its stream reached its end with non-empty accumulated text, whatever the
\* exit status; a run that ended by a timeout, a cancellation or an error
\* in the stream stored none, even when it had published text.
C36_AssistantIffEofWithText ==
    \A r \in RunIds :
        LET stored == \E i \in DOMAIN runs[r].msgs : runs[r].msgs[i] = "assistant"
            eof    == \E i \in DOMAIN runs[r].resolved : runs[r].resolved[i] = "eof"
        IN  /\ stored => (eof /\ runs[r].accumulated_text # <<>>)
            /\ runs[r].pc \in {"status", "done"} =>
                  /\ (eof /\ runs[r].accumulated_text # <<>>) => stored
                  /\ runs[r].reason \notin {"none", "exit_status"} => ~stored

\* One run stored its text although the child failed; another published
\* text and was then cut short, and stored nothing.
C36_Witness ==
    \E r, q \in RunIds :
        /\ runs[r].pc = "done" /\ runs[r].reason = "exit_status"
        /\ \E i \in DOMAIN runs[r].msgs : runs[r].msgs[i] = "assistant"
        /\ runs[q].pc = "done" /\ runs[q].outputs > 0
        /\ runs[q].accumulated_text # <<>>
        /\ runs[q].reason \in {"cancelled", "session_timeout", "result_error"}
        /\ ~\E i \in DOMAIN runs[q].msgs : runs[q].msgs[i] = "assistant"

\* ----------------------------------------------------------------- C37
\* C37: the forwarding task re-publishes every event of the agent bus on
\* the WebSocket bus, in the order published, and never stops while the
\* agent bus is open: it is alive in every state, and the events it has
\* passed are exactly the ones it has re-published, none skipped.
C37_ForwarderNeverStops ==
    LET forwarded == Cardinality({i \in DOMAIN ws_tx : ws_tx[i] = "agent"})
    IN  /\ agent_rx.alive
        /\ forwarded = agent_rx.next - 1

\* ----------------------------------------------------------------- C38
\* C38: a session's completion timestamp is present exactly when its
\* stored status is completed or failed; it is absent whenever the status
\* is running, also after send_message has reopened a finished session.
C38_CompletedAtIffTerminal ==
    \A s \in ExistingSessions :
        sessions[s].completed_at <=> sessions[s].status \in {"completed", "failed"}

\* ------------------------------------------- one session's rows, close by
\* One session id: its row in agent_sessions, the number of its rows in
\* agent_messages, the task that runs it, and delete_session calls on it.
\* agent_messages.session_id is declared with FOREIGN KEY ... REFERENCES
\* agent_sessions(id), without ON DELETE: a message row needs its session
\* row, and a session row that has message rows cannot be deleted.

\* Variant: the insert does not look for the session row.
add_agent_message_unchecked(st) ==
    [ok |-> TRUE, st |-> [st EXCEPT !.messages = @ + 1]]

\* Database::add_agent_message: INSERT INTO agent_messages; Err when the
\* session row is not there.
add_agent_message(st) ==
    IF st.row
    THEN [ok |-> TRUE, st |-> [st EXCEPT !.messages = @ + 1]]
    ELSE [ok |-> FALSE, st |-> [st EXCEPT !.refused = @ + 1]]

\* start_session: create_agent_session inserts the row, the task is spawned.
DbCreate ==
    /\ store.task = "none"
    /\ store.turns = 0
    /\ store' = [store EXCEPT !.row = TRUE, !.task = "user", !.turns = 1]
    /\ UNCHANGED <<state, reply, bus, stream, cmd, timed>>

\* run_claude_session stores the prompt as a user message; `?` on Err.
TaskUser ==
    /\ store.task = "user"
    /\ LET got == add_agent_message(store) IN
        store' = [got.st EXCEPT !.task = IF got.ok THEN "running" ELSE "error"]
    /\ UNCHANGED <<state, reply, bus, stream, cmd, timed>>

\* The child runs and run_with_timeout returns: Err, or Ok with text or
\* without.  run_claude_session then stores the continuation id if there is
\* one (an UPDATE, which changes no row when the session row is gone).
TaskRuns ==
    /\ store.task = "running"
    /\ \E out \in {"text", "empty", "err"}, init \in BOOLEAN :
         store' = [store EXCEPT
                     !.task = CASE out = "text" -> "assistant"
                                [] out = "empty" -> "exit"
                                [] OTHER -> "error",
                     !.claude_session_id =
                         IF out # "err" /\ init /\ store.turns = 1 /\ store.row
                         THEN TRUE ELSE @]
    /\ UNCHANGED <<state, reply, bus, stream, cmd, timed>>

\* After child.wait(): the accumulated text is stored as an assistant
\* message; `?` on Err.
TaskAssistant ==
    /\ store.task = "assistant"
    /\ LET got == add_agent_message(store) IN
        store' = [got.st EXCEPT !.task = IF got.ok THEN "exit" ELSE "error"]
    /\ UNCHANGED <<state, reply, bus, stream, cmd, timed>>

\* if !status.success() { bail } ... Ok(())
TaskExit ==
    /\ store.task = "exit"
    /\ \E success \in BOOLEAN :
         store' = [store EXCEPT !.task = IF success THEN "status" ELSE "error"]
    /\ UNCHANGED <<state, reply, bus, stream, cmd, timed>>

\* The spawned task on Err: `let _ = db.add_agent_message(.., "error", ..)`.
TaskError ==
    /\ store.task = "error"
    /\ store' = [add_agent_message(store).st EXCEPT !.task = "status"]
    /\ UNCHANGED <<state, reply, bus, stream, cmd, timed>>

\* `let _ = db.update_agent_session_status(..)`: an UPDATE, it inserts no
\* row; the task ends.
TaskStatus ==
    /\ store.task = "status"
    /\ store' = [store EXCEPT !.task = "done"]
    /\ UNCHANGED <<state, reply, bus, stream, cmd, timed>>

\* send_message: get_agent_session finds the row and its continuation id
\* (else the call fails and changes nothing).
SendGet ==
    /\ store.task = "done"
    /\ store.turns < MaxTurns
    /\ store.row
    /\ store.claude_session_id
    /\ store' = [store EXCEPT !.task = "send"]
    /\ UNCHANGED <<state, reply, bus, stream, cmd, timed>>

\* send_message goes on: the user message (`?` on Err, the call fails), the
\* status Running (an UPDATE), and the task of the resumed run is spawned.
SendUser ==
    /\ store.task = "send"
    /\ LET got == add_agent_message(store) IN
        store' = [got.st EXCEPT !.task = IF got.ok THEN "running" ELSE "done",
                                !.turns = @ + 1]
    /\ UNCHANGED <<state, reply, bus, stream, cmd, timed>>

\* delete_agent_session, first statement:
\* DELETE FROM agent_messages WHERE session_id = ?
DeleteMessages ==
    /\ store.del = "idle"
    /\ store.deletes < MaxDeletes
    /\ store' = [store EXCEPT !.messages = 0, !.del = "messages_deleted",
                              !.deletes = @ + 1]
    /\ UNCHANGED <<state, reply, bus, stream, cmd, timed>>

\* delete_agent_session, second statement:
\* DELETE FROM agent_sessions WHERE id = ?  Err (through `?`) when message
\* rows refer to the row; else Ok(rows_affected() > 0).
delete_row(st) ==
    IF st.messages > 0 THEN st
    ELSE [st EXCEPT !.row = FALSE, !.claude_session_id = FALSE,
                    !.deleted = @ \/ st.row]

DeleteRow ==
    /\ store.del = "messages_deleted"
    /\ store' = [delete_row(store) EXCEPT !.del = "idle"]
    /\ UNCHANGED <<state, reply, bus, stream, cmd, timed>>

DbNext ==
    \/ DbCreate
    \/ TaskUser
    \/ TaskRuns
    \/ TaskAssistant
    \/ TaskExit
    \/ TaskError
    \/ TaskStatus
    \/ SendGet
    \/ SendUser
    \/ DeleteMessages
    \/ DeleteRow

DbSpec == Init /\ [][DbNext]_vars

\* ----------------------------------------------------------------- C39
\* C39: once delete_session has returned true for a session, the session
\* has no message rows and no session row in any later state, also when
\* its task was still active at the deletion and finishes afterwards.
C39_DeletedStaysDeleted ==
    store.deleted => (~store.row /\ store.messages = 0)

\* The session was deleted under its task, which went on to its end and
\* had an insert refused.
C39_Witness ==
    /\ store.deleted
    /\ store.task = "done"
    /\ store.refused > 0

=============================================================================
